---- MODULE Spec2Model ----
(***************************************************************************)
(* A model of the NIST thermodynamic data collector:                       *)
(*   nist_scraper.py          numeric-field extractor, table parsers,      *)
(*                            scrape of one compound, save/load            *)
(*   quick_data_collection.py collection loop, aggregation, synthetic      *)
(*                            supplement                                   *)
(*   main_data_collection.py  top-level run with its emergency fallback    *)
(*                                                                         *)
(* Text is a sequence of one-character strings.  Three characters outside  *)
(* ASCII are written as tokens: "PM" is the plus-minus sign (U+00B1),      *)
(* "DEG" the degree sign (U+00B0) and "TIMES" the multiplication sign      *)
(* (U+00D7).  A float is a record [k, m, e]: k = "num" stands for          *)
(* m * 10^e (m not divisible by 10, or m = e = 0), k = "nan" for NaN,      *)
(* k = "inf" for +inf/-inf (sign in m) and k = "none" for Python's None.   *)
(***************************************************************************)
EXTENDS Integers, Sequences, FiniteSets, TLC

VARIABLES
    text,            \* _parse_number: the cell text handed in
    parsed,          \* _parse_number: its return value (None before the call)
    soup,            \* the parsed HTML document handed to a table parser
    thermo_data,     \* _parse_thermodynamic_tables: its return value
    phase_data,      \* _parse_phase_change_data: its return value
    existing_count,  \* generate_synthetic_supplement: its argument
    synthetic_data,  \* generate_synthetic_supplement: the rows returned
    rng,             \* numpy's global random state (a seed)
    pc,              \* position of the running program or function call
    hash_seed,       \* the process's string-hash randomisation seed
    idx,             \* collect_hackathon_dataset: loop position (1-based)
    attempted,       \* compounds handed to scrape_compound_data, in order
    raw_data,        \* collect_hackathon_dataset: compound -> scrape result
    real_data,       \* the table process_for_training returned (line 57)
    training_data,   \* collect_hackathon_dataset: training_data
    files,           \* the file system: file name -> content written
    outcome,         \* how the latest scrape_compound_data call ended
    result,          \* main: [status]; status "returned" (line 27),
                     \* "fallback" (line 40) or "raised" (an error escapes)
    replay_data,     \* aggregation re-run on the reloaded raw snapshot
    compound_list,   \* scrape_multiple_compounds: its argument
    save_progress,   \* scrape_multiple_compounds: its argument
    nth,             \* scrape_multiple_compounds: i + 1 of the compound in progress
    attempt,         \* search_compound: the search attempt to send next (1..4)
    results,         \* scrape_multiple_compounds: results
    progress_files,  \* n -> the file nist_data_progress_n.json, for each write tried
    wire             \* the last two events of the session: "get" or "sleep"

numVars     == <<text, parsed>>
parseVars   == <<soup, thermo_data, phase_data>>
synthVars   == <<existing_count, synthetic_data, rng>>
collectVars == <<hash_seed, idx, attempted, raw_data, real_data,
                 training_data, files, outcome, result, replay_data>>
multiVars   == <<compound_list, save_progress, nth, attempt, results,
                 progress_files, wire>>
vars        == <<pc, numVars, parseVars, synthVars, collectVars, multiVars>>

(***************************************************************************)
(* Bounds of the model.                                                    *)
(***************************************************************************)
\* longest cell text handed to _parse_number alone
MaxTextLen == 5
\* compounds of the list the web source can answer for
MaxKnown == 2
\* seeds 0..MaxSeed of the hash salt and of the generator
MaxSeed == 1
\* rows of a table handed to _parse_thermodynamic_tables
MaxRows == 3
\* rows of a document handed to _parse_phase_change_data
MaxPhaseRows == 3
\* largest existing_count handed to the generator alone
MaxExisting == 110

(***************************************************************************)
(* Characters.                                                             *)
(***************************************************************************)
CodePoint ==
    ("0" :> 48) @@ ("1" :> 49) @@ ("2" :> 50) @@ ("3" :> 51) @@
    ("4" :> 52) @@ ("5" :> 53) @@ ("6" :> 54) @@ ("7" :> 55) @@
    ("8" :> 56) @@ ("9" :> 57) @@ ("a" :> 97) @@ ("b" :> 98) @@
    ("c" :> 99) @@ ("d" :> 100) @@ ("e" :> 101) @@ ("f" :> 102) @@
    ("g" :> 103) @@ ("h" :> 104) @@ ("i" :> 105) @@ ("j" :> 106) @@
    ("k" :> 107) @@ ("l" :> 108) @@ ("m" :> 109) @@ ("n" :> 110) @@
    ("o" :> 111) @@ ("p" :> 112) @@ ("q" :> 113) @@ ("r" :> 114) @@
    ("s" :> 115) @@ ("t" :> 116) @@ ("u" :> 117) @@ ("v" :> 118) @@
    ("w" :> 119) @@ ("x" :> 120) @@ ("y" :> 121) @@ ("z" :> 122) @@
    ("A" :> 65) @@ ("B" :> 66) @@ ("C" :> 67) @@ ("D" :> 68) @@
    ("E" :> 69) @@ ("F" :> 70) @@ ("G" :> 71) @@ ("H" :> 72) @@
    ("I" :> 73) @@ ("J" :> 74) @@ ("K" :> 75) @@ ("L" :> 76) @@
    ("M" :> 77) @@ ("N" :> 78) @@ ("O" :> 79) @@ ("P" :> 80) @@
    ("Q" :> 81) @@ ("R" :> 82) @@ ("S" :> 83) @@ ("T" :> 84) @@
    ("U" :> 85) @@ ("V" :> 86) @@ ("W" :> 87) @@ ("X" :> 88) @@
    ("Y" :> 89) @@ ("Z" :> 90) @@ (" " :> 32) @@ ("+" :> 43) @@
    ("-" :> 45) @@ ("." :> 46) @@ ("," :> 44) @@ ("^" :> 94) @@
    ("(" :> 40) @@ (")" :> 41) @@ ("/" :> 47) @@ (":" :> 58) @@
    ("=" :> 61) @@ ("%" :> 37) @@ ("DEG" :> 176) @@ ("PM" :> 177) @@
    ("TIMES" :> 215)

LowerOf ==
    ("A" :> "a") @@ ("B" :> "b") @@ ("C" :> "c") @@ ("D" :> "d") @@
    ("E" :> "e") @@ ("F" :> "f") @@ ("G" :> "g") @@ ("H" :> "h") @@
    ("I" :> "i") @@ ("J" :> "j") @@ ("K" :> "k") @@ ("L" :> "l") @@
    ("M" :> "m") @@ ("N" :> "n") @@ ("O" :> "o") @@ ("P" :> "p") @@
    ("Q" :> "q") @@ ("R" :> "r") @@ ("S" :> "s") @@ ("T" :> "t") @@
    ("U" :> "u") @@ ("V" :> "v") @@ ("W" :> "w") @@ ("X" :> "x") @@
    ("Y" :> "y") @@ ("Z" :> "z")

DigitValue ==
    ("0" :> 0) @@ ("1" :> 1) @@ ("2" :> 2) @@ ("3" :> 3) @@ ("4" :> 4) @@
    ("5" :> 5) @@ ("6" :> 6) @@ ("7" :> 7) @@ ("8" :> 8) @@ ("9" :> 9)

IsDigit(c) == c \in DOMAIN DigitValue
IsSpace(c) == c = " "

\* str.lower()
Lower(s) == [k \in 1..Len(s) |-> IF s[k] \in DOMAIN LowerOf THEN LowerOf[s[k]] ELSE s[k]]

\* str.strip()
RECURSIVE LStrip(_)
LStrip(s) == IF s # <<>> /\ IsSpace(Head(s)) THEN LStrip(Tail(s)) ELSE s
RECURSIVE RStrip(_)
RStrip(s) ==
    IF s # <<>> /\ IsSpace(s[Len(s)]) THEN RStrip(SubSeq(s, 1, Len(s) - 1)) ELSE s
Strip(s) == LStrip(RStrip(s))

\* `sub in s`
Contains(s, sub) ==
    \E k \in 0..(Len(s) - Len(sub)) : SubSeq(s, k + 1, k + Len(sub)) = sub

\* s.split(sep)[0] for a one-character separator
SplitFirst(s, sep) ==
    IF \E k \in 1..Len(s) : s[k] = sep
    THEN LET k == CHOOSE j \in 1..Len(s) :
                      s[j] = sep /\ \A h \in 1..(j - 1) : s[h] # sep
         IN  SubSeq(s, 1, k - 1)
    ELSE s

(***************************************************************************)
(* Floats.                                                                 *)
(***************************************************************************)
None    == [k |-> "none", m |-> 0, e |-> 0]
NaN     == [k |-> "nan", m |-> 0, e |-> 0]
Inf(sg) == [k |-> "inf", m |-> sg, e |-> 0]

RECURSIVE Pow10(_)
Pow10(n) == IF n <= 0 THEN 1 ELSE 10 * Pow10(n - 1)

RECURSIVE Num(_, _)
Num(m, e) ==
    IF m = 0 THEN [k |-> "num", m |-> 0, e |-> 0]
    ELSE IF m % 10 = 0 THEN Num(m \div 10, e + 1)
    ELSE [k |-> "num", m |-> m, e |-> e]

Abs(n) == IF n < 0 THEN -n ELSE n
Sign(n) == IF n < 0 THEN -1 ELSE IF n > 0 THEN 1 ELSE 0

RECURSIVE NumDigits(_)
NumDigits(n) == IF Abs(n) < 10 THEN 1 ELSE 1 + NumDigits(Abs(n) \div 10)

\* position of the leading digit of a non-zero number: 10^(Order-1) <= |x| < 10^Order
Order(x) == NumDigits(x.m) + x.e

\* x < y for two finite numbers
NumLess(x, y) ==
    IF Sign(x.m) # Sign(y.m) THEN Sign(x.m) < Sign(y.m)
    ELSE IF x.m = 0 THEN FALSE
    ELSE IF Order(x) # Order(y)
         THEN IF x.m > 0 THEN Order(x) < Order(y) ELSE Order(x) > Order(y)
    ELSE LET lo == IF x.e < y.e THEN x.e ELSE y.e
         IN  x.m * Pow10(x.e - lo) < y.m * Pow10(y.e - lo)

\* Python's x < y on floats and None-free operands: any comparison with NaN is False
Less(x, y) ==
    IF x.k = "nan" \/ y.k = "nan" THEN FALSE
    ELSE IF x.k = "inf" THEN x.m < 0 /\ ~(y.k = "inf" /\ y.m < 0)
    ELSE IF y.k = "inf" THEN y.m > 0
    ELSE NumLess(x, y)

Greater(x, y) == Less(y, x)
LessEq(x, y) ==
    IF x.k = "nan" \/ y.k = "nan" THEN FALSE ELSE x = y \/ Less(x, y)
GreaterEq(x, y) == LessEq(y, x)

Int2Float(n) == Num(n, 0)

(***************************************************************************)
(* float(str) and the first match of the number pattern                    *)
(* nist_scraper.py lines 225-232.                                          *)
(***************************************************************************)
\* the position after the run of digits that starts at position p
RECURSIVE DigitsEnd(_, _)
DigitsEnd(s, p) ==
    IF p <= Len(s) /\ IsDigit(s[p]) THEN DigitsEnd(s, p + 1) ELSE p

\* the value of the digits s[p..q-1], 0 for an empty run
RECURSIVE DigitsValue(_, _, _)
DigitsValue(s, p, q) ==
    IF q <= p THEN 0 ELSE 10 * DigitsValue(s, p, q - 1) + DigitValue[s[q - 1]]

IsSignChar(c) == c \in {"+", "-"}

\* The float written sg * mant * 10^e (mant >= 0): a double holds no finite
\* value from 1.7977e308 on (inf) and none under 1e-323 but 0
RECURSIVE LeadingDigits(_, _)
LeadingDigits(n, count) ==
    IF NumDigits(n) > count THEN LeadingDigits(n \div 10, count)
    ELSE IF NumDigits(n) < count THEN LeadingDigits(n * 10, count)
    ELSE n

Float64(sg, mant, e) ==
    IF mant = 0 THEN Num(0, 0)
    ELSE IF NumDigits(mant) + e > 309
            \/ (NumDigits(mant) + e = 309 /\ LeadingDigits(mant, 5) >= 17977)
         THEN Inf(sg)
    ELSE IF NumDigits(mant) + e < -322 THEN Num(0, 0)
    ELSE Num(sg * mant, e)

\* A scan of  [sign] digits [. digits] [(e|E) [sign] digits]  from position p,
\* stage by stage.  trailingDot: float() takes "2." and "2.e3"; the pattern
\* [0-9]*\.?[0-9]+ does not take a dot that no digit follows.
\* The result is [ok, end, val]: whether a number starts at p, the position
\* after it, and its value.
SignLen(s, p) == IF p <= Len(s) /\ IsSignChar(s[p]) THEN 1 ELSE 0
SignAt(s, p)  == IF p <= Len(s) /\ s[p] = "-" THEN -1 ELSE 1

\* the exponent digits s[x..y-1] (none when y = x)
ScanDone(ok, t, x, y, mant, fracLen, sg, esign, s) ==
    [ok  |-> ok,
     end |-> IF y > x THEN y ELSE t,
     val |-> Float64(sg, mant,
                     (IF y > x THEN esign * DigitsValue(s, x, y) ELSE 0) - fracLen)]

\* the exponent mark at t and its sign
ScanExponent(s, ok, t, mant, fracLen, sg, hasE) ==
    ScanDone(ok, t,
             IF hasE THEN t + 1 + SignLen(s, t + 1) ELSE t,
             IF hasE THEN DigitsEnd(s, t + 1 + SignLen(s, t + 1)) ELSE t,
             mant, fracLen, sg,
             IF hasE THEN SignAt(s, t + 1) ELSE 1, s)

\* integer digits s[a..q-1], fraction digits s[q+1..r-1] when frac
ScanMantissa(s, a, q, r, dot, frac, sg, trailingDot) ==
    ScanExponent(s,
                 q > a \/ frac,
                 IF frac \/ (dot /\ trailingDot /\ q > a) THEN r ELSE q,
                 DigitsValue(s, a, q) * Pow10(IF frac THEN r - (q + 1) ELSE 0)
                     + (IF frac THEN DigitsValue(s, q + 1, r) ELSE 0),
                 IF frac THEN r - (q + 1) ELSE 0,
                 sg,
                 (q > a \/ frac)
                     /\ (IF frac \/ (dot /\ trailingDot /\ q > a) THEN r ELSE q) <= Len(s)
                     /\ s[IF frac \/ (dot /\ trailingDot /\ q > a) THEN r ELSE q] \in {"e", "E"})

ScanFraction(s, a, q, r, dot, sg, trailingDot) ==
    ScanMantissa(s, a, q, r, dot, dot /\ r > q + 1, sg, trailingDot)

ScanDot(s, a, q, dot, sg, trailingDot) ==
    ScanFraction(s, a, q, IF dot THEN DigitsEnd(s, q + 1) ELSE q, dot, sg, trailingDot)

ScanDigits(s, a, q, sg, trailingDot) ==
    ScanDot(s, a, q, q <= Len(s) /\ s[q] = ".", sg, trailingDot)

ScanNumber(s, p, trailingDot) ==
    ScanDigits(s, p + SignLen(s, p), DigitsEnd(s, p + SignLen(s, p)), SignAt(s, p),
               trailingDot)

\* float(s): the value, or None where Python raises ValueError
FloatWord(s) == Lower(SubSeq(s, SignLen(s, 1) + 1, Len(s)))

FloatOf(s, word, sc) ==
    IF word = <<"n", "a", "n">> THEN NaN
    ELSE IF word \in {<<"i", "n", "f">>, <<"i", "n", "f", "i", "n", "i", "t", "y">>}
         THEN Inf(SignAt(s, 1))
    ELSE IF sc.ok /\ sc.end = Len(s) + 1 THEN sc.val
    ELSE None

ParseFloat(s) == FloatOf(s, FloatWord(s), ScanNumber(s, 1, TRUE))

\* re.findall(r'[-+]?[0-9]*\.?[0-9]+(?:[eE][-+]?[0-9]+)?', s)[0] as a float,
\* None when nothing matches
RECURSIVE FirstNumber(_, _)
FirstMatch(s, p, sc) == IF sc.ok THEN sc.val ELSE FirstNumber(s, p + 1)
FirstNumber(s, p) ==
    IF p > Len(s) THEN None ELSE FirstMatch(s, p, ScanNumber(s, p, FALSE))

(***************************************************************************)
(* NISTChemicalDataScraper._parse_number, nist_scraper.py lines 209-232    *)
(***************************************************************************)
\* the characters re.sub(r'[^\d.+-eE TIMES]', '', text) keeps: in the class,
\* "+-e" is the range from "+" (43) to "e" (101)
InKeptClass(c) ==
    \/ IsDigit(c)
    \/ c = "."
    \/ (CodePoint[c] >= CodePoint["+"] /\ CodePoint[c] <= CodePoint["e"])
    \/ c = "E"
    \/ c = "TIMES"

Cleaned(t) ==
    LET kept == SelectSeq(t, InKeptClass)
    IN  [k \in 1..Len(kept) |-> IF kept[k] = "TIMES" THEN "e" ELSE kept[k]]

\* lines 221-223: the uncertainty is cut from the cleaned text
CutUncertainty(t, cleaned) ==
    IF Contains(t, <<"PM">>) THEN SplitFirst(cleaned, "PM") ELSE cleaned

\* lines 225-232: the direct parse, else the first number of the text
ParseOrFirst(t, direct) == IF direct # None THEN direct ELSE FirstNumber(t, 1)

ParseStripped(t) == ParseOrFirst(t, ParseFloat(CutUncertainty(t, Cleaned(t))))

_parse_number(txt) ==
    IF txt = <<>> \/ txt = <<"-">> THEN None ELSE ParseStripped(Strip(txt))

(***************************************************************************)
(* Documents.  A document (soup) is the sequence of its table elements; a  *)
(* table is [th |-> the texts of its th cells, tr |-> its rows], a row the *)
(* sequence of the texts of its td cells.                                  *)
(***************************************************************************)
\* ' '.join(texts)
RECURSIVE Join(_)
Join(texts) ==
    IF texts = <<>> THEN <<>>
    ELSE IF Len(texts) = 1 THEN texts[1]
    ELSE texts[1] \o <<" ">> \o Join(Tail(texts))

\* a pandas DataFrame: present = FALSE stands for None, rows are the records
NoFrame == [present |-> FALSE, rows |-> <<>>]

ThermoColumns ==
    {"temperature", "heat_capacity", "entropy", "enthalpy_minus_h298",
     "gibbs_free_energy"}

\* pd.DataFrame(records): a float column that holds a float anywhere stores
\* None as NaN; a column of None alone stays None
DataFrame(records, floatColumns) ==
    [present |-> TRUE,
     rows |-> [r \in 1..Len(records) |->
                 [c \in DOMAIN records[r] |->
                    IF c \in floatColumns
                    THEN IF records[r][c] = None
                            /\ \E q \in 1..Len(records) : records[q][c] # None
                         THEN NaN ELSE records[r][c]
                    ELSE records[r][c]]]]

(***************************************************************************)
(* NISTChemicalDataScraper._parse_thermodynamic_tables, lines 106-173      *)
(***************************************************************************)
thermo_keywords ==
    << <<"t", "e", "m", "p", "e", "r", "a", "t", "u", "r", "e">>,
      <<"h", "e", "a", "t", " ", "c", "a", "p", "a", "c", "i", "t", "y">>,
      <<"e", "n", "t", "r", "o", "p", "y">>,
      <<"c", "p", "DEG">>,
      <<"c", "p">>,
      <<"e", "n", "t", "h", "a", "l", "p", "y">>,
      <<"g", "i", "b", "b", "s">>,
      <<"j", "a", "n", "a", "f">>,
      <<"t", "h", "e", "r", "m", "o", "d", "y", "n", "a", "m", "i", "c">> >>

\* line 133
IsThermoTable(table) ==
    LET header_text == Join([h \in 1..Len(table.th) |-> Strip(table.th[h])])
    IN  \E w \in 1..Len(thermo_keywords) :
            Contains(Lower(header_text), thermo_keywords[w])

\* line 142: the temperature of a row is refused
TempRejected(temp) ==
    temp = None \/ Less(temp, Int2Float(50)) \/ Greater(temp, Int2Float(5000))

\* line 163: the heat capacity of a row is valid
CpValid(cp) == cp # None /\ Greater(cp, Int2Float(0))

\* lines 151-161: the value of column col of a row (None when the cell is
\* missing or does not parse)
ColumnValue(cells, col) ==
    IF col + 1 <= Len(cells) THEN _parse_number(Strip(cells[col + 1])) ELSE None

\* lines 137-168: the records one row adds to data (none or one)
ThermoRowRecords(cells) ==
    IF Len(cells) >= 2
    THEN LET temp == _parse_number(Strip(cells[1]))
             cp   == ColumnValue(cells, 1)
         IN  IF TempRejected(temp) THEN <<>>
             ELSE IF CpValid(cp)
                  THEN << [temperature         |-> temp,
                           heat_capacity       |-> cp,
                           entropy             |-> ColumnValue(cells, 2),
                           enthalpy_minus_h298 |-> ColumnValue(cells, 4),
                           gibbs_free_energy   |-> ColumnValue(cells, 3)] >>
                  ELSE <<>>
    ELSE <<>>

\* line 136: the loop over the rows of one table
RECURSIVE ThermoRows(_)
ThermoRows(rows) ==
    IF rows = <<>> THEN <<>>
    ELSE ThermoRowRecords(Head(rows)) \o ThermoRows(Tail(rows))

\* lines 121-134: a table without th cells or without a keyword is skipped;
\* find_all('tr')[1:] drops the first row of the others
ThermoTableRecords(table) ==
    IF table.th = <<>> THEN <<>>
    ELSE IF IsThermoTable(table)
         THEN ThermoRows(IF table.tr = <<>> THEN <<>> ELSE Tail(table.tr))
         ELSE <<>>

\* line 119: the loop over the tables
RECURSIVE ThermoRecords(_)
ThermoRecords(tables) ==
    IF tables = <<>> THEN <<>>
    ELSE ThermoTableRecords(Head(tables)) \o ThermoRecords(Tail(tables))

_parse_thermodynamic_tables(doc) ==
    LET data == ThermoRecords(doc)
    IN  IF data # <<>> THEN DataFrame(data, ThermoColumns) ELSE NoFrame

(***************************************************************************)
(* NISTChemicalDataScraper._parse_phase_change_data, lines 175-207         *)
(***************************************************************************)
EmptyDict == [x \in {} |-> None]

W_boiling      == <<"b", "o", "i", "l", "i", "n", "g">>
W_vaporization == <<"v", "a", "p", "o", "r", "i", "z", "a", "t", "i", "o", "n">>
W_melting      == <<"m", "e", "l", "t", "i", "n", "g">>
W_fusion       == <<"f", "u", "s", "i", "o", "n">>
W_temperature  == <<"t", "e", "m", "p", "e", "r", "a", "t", "u", "r", "e">>
W_point        == <<"p", "o", "i", "n", "t">>
W_enthalpy     == <<"e", "n", "t", "h", "a", "l", "p", "y">>

\* lines 195-205: the key a (lowercased) label is stored under, "" for none
PhaseKey(property_name) ==
    IF Contains(property_name, W_boiling) \/ Contains(property_name, W_vaporization)
    THEN IF Contains(property_name, W_temperature) \/ Contains(property_name, W_point)
         THEN "boiling_point_K"
         ELSE IF Contains(property_name, W_enthalpy)
              THEN "heat_of_vaporization"
              ELSE ""
    ELSE IF Contains(property_name, W_melting) \/ Contains(property_name, W_fusion)
    THEN IF Contains(property_name, W_temperature) \/ Contains(property_name, W_point)
         THEN "melting_point_K"
         ELSE IF Contains(property_name, W_enthalpy)
              THEN "heat_of_fusion"
              ELSE ""
    ELSE ""

\* a store that keeps the first value of a key
DictSetFirstWins(dict, key, value) ==
    IF key \in DOMAIN dict THEN dict ELSE (key :> value) @@ dict

\* phase_data[key] = value
DictSet(dict, key, value) == (key :> value) @@ dict

\* lines 186-205: one row
PhaseRow(dict, cells) ==
    IF Len(cells) >= 2
    THEN LET property_name == Lower(Strip(cells[1]))
             value         == _parse_number(Strip(cells[2]))
             key           == PhaseKey(property_name)
         IN  IF value # None /\ key # "" THEN DictSet(dict, key, value) ELSE dict
    ELSE dict

\* line 185: the loop over the rows of a table
RECURSIVE PhaseRows(_, _)
PhaseRows(dict, rows) ==
    IF rows = <<>> THEN dict
    ELSE PhaseRows(PhaseRow(dict, Head(rows)), Tail(rows))

\* line 182: the loop over the tables
RECURSIVE PhaseTables(_, _)
PhaseTables(dict, tables) ==
    IF tables = <<>> THEN dict
    ELSE PhaseTables(PhaseRows(dict, Head(tables).tr), Tail(tables))

_parse_phase_change_data(doc) == PhaseTables(EmptyDict, doc)

(***************************************************************************)
(* quick_data_collection.py                                                *)
(***************************************************************************)
\* lines 10-26
target_compounds ==
    << "H2O", "water", "CO2", "carbon dioxide", "CH4", "methane",
       "NH3", "ammonia", "C2H5OH", "ethanol", "N2", "nitrogen",
       "O2", "oxygen", "C6H6", "benzene", "C8H18", "octane",
       "NaCl", "sodium chloride", "H2", "hydrogen", "CO", "carbon monoxide",
       "C2H4", "ethylene", "C3H8", "propane", "C2H6", "ethane" >>

\* line 124
synthetic_compounds ==
    << "H2O", "CO2", "CH4", "NH3", "C2H5OH", "N2", "O2", "C6H6", "C8H18", "NaCl" >>

MinRows      == 50
TargetRows   == 100
MinPerCompound == 5
HashModulus  == 1000
TempLow      == 200
TempHigh     == 2000

Max(a, b) == IF a >= b THEN a ELSE b

\* get_molecular_properties, lines 103-118
MolProps(w, n, p) == [molecular_weight |-> w, n_atoms |-> n, is_polar |-> p]

properties ==
    ("H2O" :> MolProps(Num(18015, -3), 3, 1)) @@
    ("CO2" :> MolProps(Num(4401, -2), 3, 0)) @@
    ("CH4" :> MolProps(Num(1604, -2), 5, 0)) @@
    ("NH3" :> MolProps(Num(1703, -2), 4, 1)) @@
    ("C2H5OH" :> MolProps(Num(4607, -2), 9, 1)) @@
    ("N2" :> MolProps(Num(2801, -2), 2, 0)) @@
    ("O2" :> MolProps(Num(32, 0), 2, 0)) @@
    ("C6H6" :> MolProps(Num(7811, -2), 12, 0)) @@
    ("C8H18" :> MolProps(Num(11423, -2), 26, 0)) @@
    ("NaCl" :> MolProps(Num(5844, -2), 2, 1))

default_properties == MolProps(Num(50, 0), 5, 0)

get_molecular_properties(compound) ==
    IF compound \in DOMAIN properties THEN properties[compound] ELSE default_properties

\* hash(compound): CPython salts the hash of a str with a seed drawn when the
\* process starts (PYTHONHASHSEED unset), so the value is a function of the
\* seed and the name.  The name enters by its place in target_compounds.
NameIndex(compound) ==
    CHOOSE k \in 1..Len(target_compounds) : target_compounds[k] = compound

StrHash(seed, compound) ==
    7919 * NameIndex(compound) + seed * (104729 + 31 * NameIndex(compound))

\* lines 89 and 147
compound_id(seed, compound) == StrHash(seed, compound) % HashModulus

TrainingFloatColumns ==
    {"temperature", "heat_capacity", "entropy", "enthalpy_minus_h298",
     "molecular_weight"}

\* lines 87-97: one training sample
Sample(seed, compound, temperature, heat_capacity, entropy, enthalpy) ==
    LET mol == get_molecular_properties(compound)
    IN  [compound            |-> compound,
         compound_id         |-> compound_id(seed, compound),
         temperature         |-> temperature,
         heat_capacity       |-> heat_capacity,
         entropy             |-> entropy,
         enthalpy_minus_h298 |-> enthalpy,
         molecular_weight    |-> mol.molecular_weight,
         n_atoms             |-> mol.n_atoms,
         is_polar            |-> mol.is_polar]

IsNA(v) == v = None \/ v = NaN

\* line 82: df.dropna(subset=['temperature', 'heat_capacity'])
DropNA(rows) ==
    SelectSeq(rows, LAMBDA r : ~IsNA(r.temperature) /\ ~IsNA(r.heat_capacity))

\* the filter without its upper end
InTrainingRangeNoUpper(temperature) == GreaterEq(temperature, Int2Float(TempLow))

\* line 83
InTrainingRange(temperature) ==
    GreaterEq(temperature, Int2Float(TempLow)) /\ LessEq(temperature, Int2Float(TempHigh))

FilterRange(rows) == SelectSeq(rows, LAMBDA r : InTrainingRange(r.temperature))

\* lines 78-99: the samples of one compound
CompoundSamples(seed, compound, data) ==
    IF data.thermodynamic_data.present
    THEN LET df == FilterRange(DropNA(data.thermodynamic_data.rows))
         IN  [r \in 1..Len(df) |->
                Sample(seed, compound, df[r].temperature, df[r].heat_capacity,
                       df[r].entropy, df[r].enthalpy_minus_h298)]
    ELSE <<>>

\* line 77: raw_data.items() runs in insertion order, which is the order of
\* target_compounds; raw is a function from the compounds scraped to their data
RECURSIVE SamplesFrom(_, _, _)
SamplesFrom(seed, raw, k) ==
    IF k > Len(target_compounds) THEN <<>>
    ELSE (IF target_compounds[k] \in DOMAIN raw
          THEN CompoundSamples(seed, target_compounds[k], raw[target_compounds[k]])
          ELSE <<>>)
         \o SamplesFrom(seed, raw, k + 1)

\* process_for_training, lines 73-101
process_for_training(seed, raw) ==
    DataFrame(SamplesFrom(seed, raw, 1), TrainingFloatColumns)

(***************************************************************************)
(* generate_synthetic_supplement, lines 120-157.  Floats are kept to three *)
(* decimals.  np.random.normal draws from numpy's global generator: the    *)
(* n-th draw is a function of the seed, here a whole number of standard    *)
(* deviations between -DrawSpan and DrawSpan.                              *)
(***************************************************************************)
DrawSpan == 15

NormalDraw(seed, n, sigma_milli) ==
    ((((seed + 1) * (7 * n + 3)) % (2 * DrawSpan + 1)) - DrawSpan) * sigma_milli

\* a target that forgets the rows already there
target_samplesIgnoring(existing) == TargetRows

\* line 127
target_samples(existing) == Max(TargetRows - existing, 0)

\* the split without its floor of 5
samples_per_compoundNoFloor(existing) ==
    Max(TargetRows - existing, 0) \div Len(synthetic_compounds)

\* line 128
samples_per_compound(existing) ==
    Max(target_samples(existing) \div Len(synthetic_compounds), MinPerCompound)

\* line 134: np.linspace(200, 2000, n)[k], k from 0, in thousandths
LinspaceMilli(n, k) ==
    IF k = n - 1 THEN TempHigh * 1000
    ELSE TempLow * 1000 + (((TempHigh - TempLow) * 1000 * k) \div (n - 1))

\* np.log(temp) in thousandths, for temp in thousandths: ln 2 times the
\* base-2 logarithm, interpolated linearly between powers of two
RECURSIVE Log2Floor(_)
Log2Floor(n) == IF n < 2 THEN 0 ELSE 1 + Log2Floor(n \div 2)

RECURSIVE Pow2(_)
Pow2(n) == IF n <= 0 THEN 1 ELSE 2 * Pow2(n - 1)

LnMilli(temp_milli) ==
    LET t == temp_milli \div 1000
        b == Log2Floor(t)
    IN  (693 * (1000 * b + (1000 * (t - Pow2(b))) \div Pow2(b))) \div 1000

\* lines 138-140 and 149: heat_capacity = max(cp, 10)
SyntheticCp(n_atoms, temp_milli, noise_milli) ==
    LET base_cp     == 20 + n_atoms * 5
        t           == temp_milli \div 1000
        temp_effect == (temp_milli \div 100) + ((t * t) \div 1000)
        cp          == base_cp * 1000 + temp_effect + noise_milli
    IN  Max(cp, 10 * 1000)

\* lines 143 and 150: entropy = max(entropy, 0)
SyntheticEntropy(n_atoms, temp_milli, noise_milli) ==
    Max(150 * 1000 + LnMilli(temp_milli) * 20 + n_atoms * 10 * 1000 + noise_milli, 0)

\* lines 136-155: row k (from 0) of compound number c (from 1)
SyntheticSample(hseed, seed, c, k, n) ==
    LET compound == synthetic_compounds[c]
        mol      == get_molecular_properties(compound)
        temp     == LinspaceMilli(n, k)
        draw     == 3 * ((c - 1) * n + k)
    IN  Sample(hseed, compound,
               Num(temp, -3),
               Num(SyntheticCp(mol.n_atoms, temp, NormalDraw(seed, draw, 2000)), -3),
               Num(SyntheticEntropy(mol.n_atoms, temp, NormalDraw(seed, draw + 1, 5000)), -3),
               Num(NormalDraw(seed, draw + 2, 1000 * 1000), -3))

\* lines 130-157: the rows, compound by compound
generate_synthetic_supplement(hseed, seed, existing) ==
    LET n     == samples_per_compound(existing)
        total == Len(synthetic_compounds) * n
    IN  DataFrame([j \in 1..total |->
                     SyntheticSample(hseed, seed, ((j - 1) \div n) + 1, (j - 1) % n, n)],
                  TrainingFloatColumns)

\* pd.concat([a, b], ignore_index=True)
Concat(a, b) == [present |-> TRUE, rows |-> a.rows \o b.rows]

(***************************************************************************)
(* The web source.  What it serves for one compound is a response: how the *)
(* search ends, and for each of the two data pages either a failed fetch   *)
(* (ok = FALSE) or the document fetched.                                   *)
(***************************************************************************)
\* str(n) for n >= 0
RECURSIVE IntText(_)
IntText(n) ==
    LET d == CHOOSE c \in DOMAIN DigitValue : DigitValue[c] = n % 10
    IN  IF n < 10 THEN <<d>> ELSE Append(IntText(n \div 10), d)

ThermoHeader == << <<"T", "e", "m", "p", "e", "r", "a", "t", "u", "r", "e", " ", "(", "K", ")">>,
                   <<"C", "p">> >>
PlainHeader  == << <<"N", "a", "m", "e">>, <<"V", "a", "l", "u", "e">> >>

\* a JANAF-like table: n rows from t0 kelvin in steps of step
JanafTable(n, t0, step) ==
    [th |-> ThermoHeader,
     tr |-> <<<<>>>> \o [k \in 1..n |->
                          << IntText(t0 + step * (k - 1)), IntText(30 + k),
                             IntText(200 + k) >>]]

\* a small page with rows the parser or the aggregation must refuse
DocA ==
    << [th |-> ThermoHeader,
        tr |-> << <<>>,
                  << <<"2", "9", "8", ".", "1", "5">>, <<"3", "5", ".", "5">> >>,
                  << <<"N", "a", "N">>, <<"3", "5", ".", "5">> >>,
                  << <<"1", "0", "0">>, <<"3", "0", ".", "1">> >>,
                  << <<"1", "0">>, <<"2", "0">> >>,
                  << <<"2", "5", "0", "0">>, <<"6", "0">> >>,
                  << <<"3", "0", "0">>, <<"3", "6", ".", "1">>, <<"2", "0", "5", ".", "2">> >>,
                  << <<"5", "0", "0">>, <<"0">> >>,
                  << <<"4", "0", "0">>, <<"3", "7", " ", "PM", " ", "1">>, <<"-">>, <<"-", "2", "1", "0", ".", "5">>, <<"4", ".", "2">> >> >>] >>
DocB == << JanafTable(24, 200, 75) >>
DocC == << JanafTable(26, 125, 75) >>
\* numerically valid rows under a header without any keyword
DocPlain ==
    << [th |-> PlainHeader,
        tr |-> << <<>>, << <<"2", "9", "8">>, <<"3", "5", ".", "5">> >> >>] >>

PhaseDoc ==
    << [th |-> <<>>,
        tr |-> << << <<"B", "o", "i", "l", "i", "n", "g", " ", "p", "o", "i", "n", "t">>, <<"3", "7", "3", ".", "1", "5">> >>,
                  << <<"E", "n", "t", "h", "a", "l", "p", "y", " ", "o", "f", " ", "v", "a", "p", "o", "r", "i", "z", "a", "t", "i", "o", "n">>, <<"4", "0", ".", "6", "5">> >> >>] >>

Page(doc) == [ok |-> TRUE, doc |-> doc]
NoPage    == [ok |-> FALSE, doc |-> <<>>]

Response(search, thermo, phase) == [search |-> search, thermo |-> thermo, phase |-> phase]

\* what the source may answer for a compound it knows
KnownResponses ==
    { Response("found", Page(DocA), Page(PhaseDoc)),
      Response("found", Page(DocB), NoPage),
      Response("found", Page(DocC), Page(PhaseDoc)),
      Response("found", Page(DocPlain), Page(PhaseDoc)),
      Response("found", NoPage, NoPage) }

\* what it may answer for any compound: nothing found, or a failure that
\* escapes scrape_compound_data
FailedResponses ==
    { Response("not_found", NoPage, NoPage), Response("raised", NoPage, NoPage) }

\* the places in target_compounds of the compounds the source knows
KnownPlaces == { 1 + ((7 * (k - 1)) % Len(target_compounds)) : k \in 1..MaxKnown }

Responses(place) ==
    IF place \in KnownPlaces THEN KnownResponses \cup FailedResponses
    ELSE FailedResponses

(***************************************************************************)
(* NISTChemicalDataScraper.scrape_compound_data, lines 234-258, with       *)
(* search_compound (28-65), get_thermodynamic_data (67-85) and             *)
(* get_phase_change_data (87-104)                                          *)
(***************************************************************************)
\* the digits of the id the search finds for a compound
NistId(compound) == 7732000 + NameIndex(compound)

\* lines 76-85: a failed fetch gives None
get_thermodynamic_data(page) ==
    IF page.ok THEN _parse_thermodynamic_tables(page.doc) ELSE NoFrame

\* lines 95-104: a failed fetch gives {}
get_phase_change_data(page) ==
    IF page.ok THEN _parse_phase_change_data(page.doc) ELSE EmptyDict

NoResult == [some |-> FALSE]

\* the return value, for a search that did not raise
scrape_compound_data(compound, resp) ==
    IF resp.search # "found" THEN NoResult
    ELSE [some               |-> TRUE,
          formula            |-> compound,
          compound_id        |-> NistId(compound),
          thermodynamic_data |-> get_thermodynamic_data(resp.thermo),
          phase_change_data  |-> get_phase_change_data(resp.phase)]

(***************************************************************************)
(* save_data (285-307) and load_data (309-321)                             *)
(***************************************************************************)
\* DataFrame.to_dict('records') / None, as json.dump writes it: a list of
\* records or null
FrameToJson(frame) == [isnull |-> ~frame.present, records |-> frame.rows]

save_data(data) ==
    [c \in DOMAIN data |->
        [formula            |-> data[c].formula,
         compound_id        |-> data[c].compound_id,
         phase_change_data  |-> data[c].phase_change_data,
         thermodynamic_data |-> FrameToJson(data[c].thermodynamic_data)]]

\* line 316: only a non-empty list is made a DataFrame again; null stays
\* None and [] stays an empty list
JsonToFrame(j) ==
    IF ~j.isnull /\ j.records # <<>> THEN DataFrame(j.records, ThermoColumns)
    ELSE [present |-> ~j.isnull, rows |-> <<>>]

load_data(json) ==
    [c \in DOMAIN json |->
        [some               |-> TRUE,
         formula            |-> json[c].formula,
         compound_id        |-> json[c].compound_id,
         thermodynamic_data |-> JsonToFrame(json[c].thermodynamic_data),
         phase_change_data  |-> json[c].phase_change_data]]

\* DataFrame.to_csv(index=False): the rows, a missing value (None, NaN) as an
\* empty field
EmptyField == [k |-> "empty", m |-> 0, e |-> 0]

to_csv(frame) ==
    [r \in 1..Len(frame.rows) |->
        [c \in DOMAIN frame.rows[r] |->
            IF c \in TrainingFloatColumns /\ IsNA(frame.rows[r][c])
            THEN EmptyField ELSE frame.rows[r][c]]]

NoFile == [written |-> FALSE, content |-> <<>>]
File(content) == [written |-> TRUE, content |-> content]

(***************************************************************************)
(* The run of main_data_collection.main (lines 2-40) over                  *)
(* collect_hackathon_dataset (quick_data_collection.py lines 6-71).        *)
(* A write to a file either succeeds or raises.                            *)
(***************************************************************************)
Seeds == 0..MaxSeed

NoFiles == [raw |-> NoFile, training |-> NoFile, final |-> NoFile]
NoResultYet == [status |-> "none"]
NoReplay == [hash_seed |-> 0, table |-> NoFrame]

IdleNum     == text = <<>> /\ parsed = None
IdleParse   == soup = <<>> /\ thermo_data = NoFrame /\ phase_data = EmptyDict
IdleSynth   == existing_count = -1 /\ synthetic_data = NoFrame /\ rng = 0
IdleCollect ==
    /\ hash_seed = 0 /\ idx = 1 /\ attempted = <<>> /\ raw_data = EmptyDict
    /\ real_data = NoFrame /\ training_data = NoFrame /\ files = NoFiles
    /\ outcome = "none" /\ result = NoResultYet /\ replay_data = NoReplay

IdleMulti ==
    /\ compound_list = <<>> /\ save_progress = FALSE /\ nth = 0 /\ attempt = 0
    /\ results = EmptyDict /\ progress_files = EmptyDict
    /\ wire = <<"none", "none">>

\* the interpreter starts: the hash salt is drawn, nothing is written yet
Init ==
    /\ pc = "scrape"
    /\ IdleNum /\ IdleParse /\ IdleSynth
    /\ IdleMulti
    /\ hash_seed \in Seeds
    /\ idx = 1 /\ attempted = <<>> /\ raw_data = EmptyDict
    /\ real_data = NoFrame /\ training_data = NoFrame /\ files = NoFiles
    /\ outcome = "none" /\ result = NoResultYet /\ replay_data = NoReplay

\* line 40: the result is kept when it is there and has thermodynamic data
Keeps(data) == data.some /\ data.thermodynamic_data.present

\* a loop that a failed compound ends
NextIdxBreaks(i, failed) == IF failed THEN Len(target_compounds) + 1 ELSE i + 1

\* lines 37-48: where the loop goes after a compound, failed or not
NextIdx(i, failed) == i + 1

\* lines 37-48: one turn of the loop over target_compounds
ScrapeCompound ==
    /\ pc = "scrape"
    /\ \E resp \in Responses(idx) :
         LET compound == target_compounds[idx]
             raised   == resp.search = "raised"
             data     == scrape_compound_data(compound, resp)
             kept     == ~raised /\ Keeps(data)
             next     == NextIdx(idx, ~kept)
         IN  /\ attempted' = Append(attempted, compound)
             /\ raw_data' = IF kept THEN (compound :> data) @@ raw_data ELSE raw_data
             /\ outcome' = IF raised THEN "raised"
                           ELSE IF ~data.some THEN "not_found"
                           ELSE IF ~data.thermodynamic_data.present THEN "no_data"
                           ELSE "kept"
             /\ idx' = next
             /\ pc' = IF next > Len(target_compounds) THEN "save_raw" ELSE "scrape"
    /\ UNCHANGED <<hash_seed, real_data, training_data, files, result, replay_data>>
    /\ UNCHANGED <<numVars, parseVars, synthVars>>
    /\ UNCHANGED multiVars

\* an error leaves collect_hackathon_dataset: its frame is unwound, and what
\* main's handler can still see is the files
Unwound ==
    /\ raw_data' = EmptyDict
    /\ real_data' = NoFrame
    /\ training_data' = NoFrame
    /\ pc' = "except"

\* lines 52-54: the raw results are written when there are any
SaveRawData ==
    /\ pc = "save_raw"
    /\ \/ /\ raw_data = EmptyDict
          /\ pc' = "process"
          /\ UNCHANGED <<files, raw_data, real_data, training_data>>
       \/ /\ raw_data # EmptyDict
          /\ files' = [files EXCEPT !.raw = File(save_data(raw_data))]
          /\ pc' = "process"
          /\ UNCHANGED <<raw_data, real_data, training_data>>
       \/ /\ raw_data # EmptyDict
          /\ Unwound
          /\ UNCHANGED files
    /\ UNCHANGED <<hash_seed, idx, attempted, outcome, result, replay_data>>
    /\ UNCHANGED <<numVars, parseVars, synthVars>>
    /\ UNCHANGED multiVars

\* line 57
ProcessForTraining ==
    /\ pc = "process"
    /\ training_data' = process_for_training(hash_seed, raw_data)
    /\ real_data' = training_data'
    /\ pc' = "supplement"
    /\ UNCHANGED <<hash_seed, idx, attempted, raw_data, files, outcome, result,
                   replay_data>>
    /\ UNCHANGED <<numVars, parseVars, synthVars>>
    /\ UNCHANGED multiVars

\* the threshold of main's warning (20) in place of 50
NeedsSupplementAt20(count) == count < 20

\* line 60
NeedsSupplement(count) == count < MinRows

\* lines 59-63
Supplement ==
    /\ pc = "supplement"
    /\ \/ /\ NeedsSupplement(Len(training_data.rows))
          /\ \E seed \in Seeds :
               /\ rng' = seed
               /\ existing_count' = Len(training_data.rows)
               /\ synthetic_data' =
                      generate_synthetic_supplement(hash_seed, seed, Len(training_data.rows))
               /\ training_data' = Concat(training_data, synthetic_data')
       \/ /\ ~NeedsSupplement(Len(training_data.rows))
          /\ UNCHANGED <<synthVars, training_data>>
    /\ pc' = "write_csv"
    /\ UNCHANGED <<hash_seed, idx, attempted, raw_data, real_data, files, outcome,
                   result, replay_data>>
    /\ UNCHANGED <<numVars, parseVars>>
    /\ UNCHANGED multiVars

\* lines 65-71: the table is written, then returned to main
WriteTrainingCsv ==
    /\ pc = "write_csv"
    /\ \/ /\ files' = [files EXCEPT !.training = File(to_csv(training_data))]
          /\ pc' = "summary"
          /\ UNCHANGED <<raw_data, real_data, training_data>>
       \/ /\ Unwound
          /\ UNCHANGED files
    /\ UNCHANGED <<hash_seed, idx, attempted, outcome, result, replay_data>>
    /\ UNCHANGED <<numVars, parseVars, synthVars>>
    /\ UNCHANGED multiVars

\* main lines 12-27: the summary, the final write and the return
MainFinish ==
    /\ pc = "summary"
    /\ \/ /\ files' = [files EXCEPT !.final = File(to_csv(training_data))]
          /\ result' = [status |-> "returned"]
          /\ pc' = "exit"
          /\ UNCHANGED <<raw_data, real_data, training_data>>
       \/ /\ Unwound
          /\ UNCHANGED <<files, result>>
    /\ UNCHANGED <<hash_seed, idx, attempted, outcome, replay_data>>
    /\ UNCHANGED <<numVars, parseVars, synthVars>>
    /\ UNCHANGED multiVars

\* main lines 29-40: the handler; its own write is outside any try
Fallback ==
    /\ pc = "except"
    /\ \E seed \in Seeds :
         LET data == generate_synthetic_supplement(hash_seed, seed, 0)
         IN  /\ rng' = seed
             /\ existing_count' = 0
             /\ synthetic_data' = data
             /\ \/ /\ files' = [files EXCEPT !.final = File(to_csv(data))]
                   /\ result' = [status |-> "fallback"]
                \/ /\ result' = [status |-> "raised"]
                   /\ UNCHANGED files
    /\ pc' = "exit"
    /\ UNCHANGED <<hash_seed, idx, attempted, raw_data, real_data, training_data,
                   outcome, replay_data>>
    /\ UNCHANGED <<numVars, parseVars>>
    /\ UNCHANGED multiVars

Next ==
    \/ ScrapeCompound
    \/ SaveRawData
    \/ ProcessForTraining
    \/ Supplement
    \/ WriteTrainingCsv
    \/ MainFinish
    \/ Fallback

Spec == Init /\ [][Next]_vars

(***************************************************************************)
(* The functions on their own: each specification draws an input in Init   *)
(* and applies the function to it.                                         *)
(***************************************************************************)
SeqsUpTo(S, n) == UNION {[1..k -> S] : k \in 0..n}

\* _parse_number on every text over a small alphabet
NumberAlphabet == {"2", "9", ".", "PM", " ", "-", "e", "N", "a"}

InitNumber ==
    /\ pc = "input"
    /\ text \in SeqsUpTo(NumberAlphabet, MaxTextLen)
    /\ parsed = None
    /\ IdleParse /\ IdleSynth /\ IdleCollect
    /\ IdleMulti

ParseNumber ==
    /\ pc = "input"
    /\ parsed' = _parse_number(text)
    /\ pc' = "done"
    /\ UNCHANGED <<text, parseVars, synthVars, collectVars>>
    /\ UNCHANGED multiVars

SpecNumber == InitNumber /\ [][ParseNumber]_vars

\* _parse_thermodynamic_tables on one table of up to MaxRows rows or two
\* tables of up to MaxRows - 1 rows
ThermoRowChoices ==
    { <<>>,
      << <<"2", "9", "8">>, <<"3", "5", ".", "5">> >>,
      << <<"1", "0">>, <<"3", "5", ".", "5">> >>,
      << <<"2", "9", "8">>, <<"0">> >>,
      << <<"N", "a", "N">>, <<"3", "5", ".", "5">> >>,
      << <<"2", "9", "8">> >>,
      << <<"3", "0", "0">>, <<"3", "6", ".", "1">>, <<"-">>, <<"2", "0", "5", ".", "2">>, <<"x">>, <<"7">> >>,
      << <<"6", "0", "0", "0">>, <<"4", "0">> >>,
      << <<"4", "0", "0">>, <<"a", "b", "c">> >> }

HeaderChoices == { <<>>, PlainHeader, ThermoHeader }

TablesOf(n) ==
    {[th |-> h, tr |-> r] : h \in HeaderChoices, r \in SeqsUpTo(ThermoRowChoices, n)}

ThermoDocs ==
    {<<>>} \cup {<<t>> : t \in TablesOf(MaxRows)}
           \cup {<<t1, t2>> : t1 \in TablesOf(MaxRows - 1), t2 \in TablesOf(MaxRows - 1)}

InitThermo ==
    /\ pc = "input"
    /\ soup \in ThermoDocs
    /\ thermo_data = NoFrame /\ phase_data = EmptyDict
    /\ IdleNum /\ IdleSynth /\ IdleCollect
    /\ IdleMulti

ParseThermo ==
    /\ pc = "input"
    /\ thermo_data' = _parse_thermodynamic_tables(soup)
    /\ pc' = "done"
    /\ UNCHANGED <<soup, phase_data, numVars, synthVars, collectVars>>
    /\ UNCHANGED multiVars

SpecThermo == InitThermo /\ [][ParseThermo]_vars

\* _parse_phase_change_data on one table of up to MaxPhaseRows rows or two
\* tables of up to MaxPhaseRows - 2 rows
PhaseRowChoices ==
    { << <<"B", "o", "i", "l", "i", "n", "g", " ", "p", "o", "i", "n", "t">>, <<"3", "7", "3", ".", "1", "5">> >>,
      << <<"B", "o", "i", "l", "i", "n", "g", " ", "T", "e", "m", "p", "e", "r", "a", "t", "u", "r", "e">>, <<"3", "7", "3">> >>,
      << <<"E", "n", "t", "h", "a", "l", "p", "y", " ", "o", "f", " ", "v", "a", "p", "o", "r", "i", "z", "a", "t", "i", "o", "n">>, <<"4", "0", ".", "6", "5">> >>,
      << <<"E", "n", "t", "h", "a", "l", "p", "y", " ", "a", "t", " ", "b", "o", "i", "l", "i", "n", "g", " ", "p", "o", "i", "n", "t">>, <<"4", "0", ".", "7">> >>,
      << <<"M", "e", "l", "t", "i", "n", "g", " ", "p", "o", "i", "n", "t">>, <<"2", "7", "3", ".", "1", "5">> >>,
      << <<"E", "n", "t", "h", "a", "l", "p", "y", " ", "o", "f", " ", "f", "u", "s", "i", "o", "n">>, <<"6", ".", "0", "1">> >>,
      << <<"F", "u", "s", "i", "o", "n", "/", "v", "a", "p", "o", "r", "i", "z", "a", "t", "i", "o", "n", " ", "e", "n", "t", "h", "a", "l", "p", "y">>, <<"4", "6", ".", "7">> >>,
      << <<"D", "e", "n", "s", "i", "t", "y">>, <<"0", ".", "9", "9", "7">> >>,
      << <<"B", "o", "i", "l", "i", "n", "g", " ", "p", "o", "i", "n", "t">>, <<"-">> >>,
      << <<"M", "e", "l", "t", "i", "n", "g", " ", "p", "o", "i", "n", "t">> >>,
      << <<"E", "n", "t", "h", "a", "l", "p", "y", " ", "o", "f", " ", "f", "u", "s", "i", "o", "n">>, <<"n", "/", "a">> >>,
      << <<"B", "o", "i", "l", "i", "n", "g">>, <<"1", "0", "0">> >> }

PhaseTable(rows) == [th |-> <<>>, tr |-> rows]

PhaseDocs ==
    {<<PhaseTable(r)>> : r \in SeqsUpTo(PhaseRowChoices, MaxPhaseRows)}
    \cup {<<PhaseTable(r1), PhaseTable(r2)>> :
             r1 \in SeqsUpTo(PhaseRowChoices, MaxPhaseRows - 2),
             r2 \in SeqsUpTo(PhaseRowChoices, MaxPhaseRows - 2)}

InitPhase ==
    /\ pc = "input"
    /\ soup \in PhaseDocs
    /\ thermo_data = NoFrame /\ phase_data = EmptyDict
    /\ IdleNum /\ IdleSynth /\ IdleCollect
    /\ IdleMulti

ParsePhase ==
    /\ pc = "input"
    /\ phase_data' = _parse_phase_change_data(soup)
    /\ pc' = "done"
    /\ UNCHANGED <<soup, thermo_data, numVars, synthVars, collectVars>>
    /\ UNCHANGED multiVars

SpecPhase == InitPhase /\ [][ParsePhase]_vars

\* generate_synthetic_supplement on every existing_count up to MaxExisting
InitSynth ==
    /\ pc = "input"
    /\ existing_count \in 0..MaxExisting
    /\ rng \in Seeds
    /\ synthetic_data = NoFrame
    /\ hash_seed \in Seeds
    /\ idx = 1 /\ attempted = <<>> /\ raw_data = EmptyDict
    /\ real_data = NoFrame /\ training_data = NoFrame /\ files = NoFiles
    /\ outcome = "none" /\ result = NoResultYet /\ replay_data = NoReplay
    /\ IdleNum /\ IdleParse
    /\ IdleMulti

GenerateSynthetic ==
    /\ pc = "input"
    /\ synthetic_data' = generate_synthetic_supplement(hash_seed, rng, existing_count)
    /\ pc' = "done"
    /\ UNCHANGED <<existing_count, rng, numVars, parseVars, collectVars>>
    /\ UNCHANGED multiVars

SpecSynth == InitSynth /\ [][GenerateSynthetic]_vars

\* the results the loop keeps, over the compounds the source knows
KeptResults ==
    {d \in {scrape_compound_data(target_compounds[p], r) :
                p \in KnownPlaces, r \in KnownResponses} : Keeps(d)}

\* the raw results a run can end its loop with
RawMappings ==
    UNION { {f \in [{target_compounds[p] : p \in S} -> KeptResults] :
                \A c \in DOMAIN f : f[c].formula = c} : S \in SUBSET KnownPlaces }

InitReplay ==
    /\ pc = "snapshot"
    /\ IdleNum /\ IdleParse /\ IdleSynth
    /\ IdleMulti
    /\ hash_seed \in Seeds
    /\ raw_data \in RawMappings
    /\ idx = 1 /\ attempted = <<>>
    /\ real_data = NoFrame /\ training_data = NoFrame /\ files = NoFiles
    /\ outcome = "none" /\ result = NoResultYet /\ replay_data = NoReplay

\* quick_data_collection.py lines 52-57: the snapshot is written when there is
\* anything to write, and the mapping is aggregated
SnapshotAndAggregate ==
    /\ pc = "snapshot"
    /\ files' = IF raw_data # EmptyDict
                THEN [files EXCEPT !.raw = File(save_data(raw_data))]
                ELSE files
    /\ real_data' = process_for_training(hash_seed, raw_data)
    /\ pc' = "saved"
    /\ UNCHANGED <<hash_seed, idx, attempted, raw_data, training_data, outcome,
                   result, replay_data>>
    /\ UNCHANGED <<numVars, parseVars, synthVars>>
    /\ UNCHANGED multiVars

\* a later process (its own hash salt) reloads the snapshot with load_data
\* (lines 309-321) and aggregates it again with process_for_training
Replay ==
    /\ pc = "saved"
    /\ files.raw.written
    /\ \E hs \in Seeds :
         replay_data' = [hash_seed |-> hs,
                         table |-> process_for_training(hs, load_data(files.raw.content))]
    /\ pc' = "replayed"
    /\ UNCHANGED <<hash_seed, idx, attempted, raw_data, real_data, training_data,
                   files, outcome, result>>
    /\ UNCHANGED <<numVars, parseVars, synthVars>>
    /\ UNCHANGED multiVars

SpecReplay == InitReplay /\ [][SnapshotAndAggregate \/ Replay]_vars

(***************************************************************************)
(* NISTChemicalDataScraper.scrape_multiple_compounds, lines 260-283, one   *)
(* step per request sent or pause taken: search_compound (28-65) sends up  *)
(* to four searches, scrape_compound_data (234-258) sleeps before each of  *)
(* its two data requests, and the loop sleeps at line 281.                 *)
(***************************************************************************)
\* length of the compound_list handed to scrape_multiple_compounds
MaxList == 10

\* lines 31-36
SearchAttempts == 4

\* line 273
ProgressEvery == 5

\* the lists handed in: MaxList consecutive names of target_compounds,
\* starting anywhere
Rotation(s) ==
    [j \in 1..MaxList |-> target_compounds[((j - 1 + s) % Len(target_compounds)) + 1]]

CompoundLists == {Rotation(s) : s \in 0..(Len(target_compounds) - 1)}

\* lines 40-62: how one search request ends
SearchOutcomes(compound) ==
    IF NameIndex(compound) \in KnownPlaces THEN {"found", "nothing", "raised"}
    ELSE {"nothing", "raised"}

\* what the two data requests may bring back
ThermoPages == {Page(DocA), Page(DocPlain), NoPage}
PhasePages  == {Page(PhaseDoc), NoPage}

\* lines 253-258
CompoundResult(compound, thermo, phase) ==
    [some               |-> TRUE,
     formula            |-> compound,
     compound_id        |-> NistId(compound),
     thermodynamic_data |-> thermo,
     phase_change_data  |-> phase]

\* session.get and time.sleep as the source sees them
Sent(w)   == <<w[2], "get">>
Slept(w)  == <<w[2], "sleep">>

InitMulti ==
    /\ pc = "search"
    /\ IdleNum /\ IdleParse /\ IdleSynth /\ IdleCollect
    /\ compound_list \in CompoundLists
    /\ save_progress \in BOOLEAN
    /\ nth = 1 /\ attempt = 1
    /\ results = EmptyDict /\ progress_files = EmptyDict
    /\ wire = <<"none", "none">>

\* line 264: the loop takes the next compound, or line 283 returns
NextCompound ==
    /\ nth' = nth + 1
    /\ attempt' = 1
    /\ pc' = IF nth + 1 > Len(compound_list) THEN "done" ELSE "search"

\* search_compound lines 38-62: one search request; a request that finds
\* nothing or fails is followed by the next attempt at once, and after the
\* last attempt scrape_compound_data returns None (line 241)
SearchAttempt ==
    /\ pc = "search"
    /\ wire' = Sent(wire)
    /\ \E found \in SearchOutcomes(compound_list[nth]) :
         IF found = "found"
         THEN pc' = "thermo" /\ attempt' = attempt
         ELSE IF attempt < SearchAttempts
              THEN pc' = "search" /\ attempt' = attempt + 1
              ELSE pc' = "pause" /\ attempt' = attempt
    /\ UNCHANGED <<compound_list, save_progress, nth, results, progress_files>>
    /\ UNCHANGED <<numVars, parseVars, synthVars, collectVars>>

\* lines 246-247
FetchThermo ==
    /\ pc = "thermo"
    /\ wire' = Sent(Slept(wire))
    /\ \E page \in ThermoPages : thermo_data' = get_thermodynamic_data(page)
    /\ pc' = "phase"
    /\ UNCHANGED <<compound_list, save_progress, nth, attempt, results, progress_files>>
    /\ UNCHANGED <<soup, phase_data, numVars, synthVars, collectVars>>

\* lines 250-258 and 269-273: the second data request, the result is stored
FetchPhase ==
    /\ pc = "phase"
    /\ wire' = Sent(Slept(wire))
    /\ \E page \in PhasePages :
         results' = (compound_list[nth] :>
                        CompoundResult(compound_list[nth], thermo_data,
                                       get_phase_change_data(page))) @@ results
    /\ thermo_data' = NoFrame
    /\ pc' = IF save_progress /\ nth % ProgressEvery = 0 THEN "save" ELSE "pause"
    /\ UNCHANGED <<compound_list, save_progress, nth, attempt, progress_files>>
    /\ UNCHANGED <<soup, phase_data, numVars, synthVars, collectVars>>

\* lines 273-278: the progress file is written; a write that raises lands in
\* the except clause, whose continue skips the sleep of line 281
SaveProgress ==
    /\ pc = "save"
    /\ \/ /\ progress_files' = (nth :> File(save_data(results))) @@ progress_files
          /\ pc' = "pause"
          /\ UNCHANGED <<nth, attempt>>
       \/ /\ progress_files' = (nth :> NoFile) @@ progress_files
          /\ NextCompound
    /\ UNCHANGED <<compound_list, save_progress, results, wire>>
    /\ UNCHANGED <<numVars, parseVars, synthVars, collectVars>>

\* lines 280-281
LoopPause ==
    /\ pc = "pause"
    /\ wire' = Slept(wire)
    /\ NextCompound
    /\ UNCHANGED <<compound_list, save_progress, results, progress_files>>
    /\ UNCHANGED <<numVars, parseVars, synthVars, collectVars>>

NextMulti ==
    \/ SearchAttempt
    \/ FetchThermo
    \/ FetchPhase
    \/ SaveProgress
    \/ LoopPause

SpecMulti == InitMulti /\ [][NextMulti]_vars

(***************************************************************************)
(* Properties.                                                             *)
(***************************************************************************)
\* C1: whenever collect_hackathon_dataset returns, whatever the compounds'
\* scrape outcomes were, the table returned and written has at least 50 rows:
\* with fewer than 50 real rows generate_synthetic_supplement was called with
\* that count and its rows follow the real rows; with 50 or more real rows no
\* synthetic row is added.
C1_MinimumRows ==
    pc = "summary" =>
        /\ Len(training_data.rows) >= 50
        /\ files.training = File(to_csv(training_data))
        /\ Len(real_data.rows) < 50 =>
              /\ existing_count = Len(real_data.rows)
              /\ synthetic_data =
                     generate_synthetic_supplement(hash_seed, rng, Len(real_data.rows))
              /\ training_data.rows = real_data.rows \o synthetic_data.rows
        /\ Len(real_data.rows) >= 50 =>
              /\ training_data = real_data
              /\ synthetic_data = NoFrame

C1_Witness ==
    /\ pc = "summary"
    /\ Len(real_data.rows) = 49
    /\ Len(training_data.rows) > 49
    /\ outcome # "kept"

\* C2: main never ends without a non-empty final output file: an error in
\* any step of the pipeline is caught, generate_synthetic_supplement(0) is
\* called and its result is written as the final table; no error escapes.
C2_AlwaysWritesFinal ==
    pc = "exit" =>
        /\ result.status \in {"returned", "fallback"}
        /\ files.final.written
        /\ files.final.content # <<>>
        /\ result.status = "fallback" =>
              /\ existing_count = 0
              /\ files.final.content = to_csv(synthetic_data)

\* C3: in the collection loop every compound of the list is attempted once,
\* in list order, whatever happened to the compounds before it; a compound
\* that fails adds no record, and the records of earlier compounds stay as
\* they are.
C3_LoopNeverStops ==
    /\ [](pc = "scrape" =>
            /\ idx \in 1..Len(target_compounds)
            /\ attempted = SubSeq(target_compounds, 1, idx - 1))
    /\ [](pc # "scrape" => attempted = target_compounds)
    /\ [][pc = "scrape" =>
            /\ attempted' = Append(attempted, target_compounds[idx])
            /\ idx' = idx + 1
            /\ pc' = IF idx < Len(target_compounds) THEN "scrape" ELSE "save_raw"
            /\ \A c \in DOMAIN raw_data :
                  c \in DOMAIN raw_data' /\ raw_data'[c] = raw_data[c]
            /\ outcome' # "kept" => raw_data' = raw_data
            /\ outcome' = "kept" =>
                  DOMAIN raw_data' = DOMAIN raw_data \cup {target_compounds[idx]}]_vars

C3_Witness ==
    /\ pc = "save_raw"
    /\ attempted = target_compounds
    /\ DOMAIN raw_data = {"ammonia"}
    /\ outcome = "raised"

\* the rows of a table that belong to a compound
RowsOf(rows, compound) == {j \in 1..Len(rows) : rows[j].compound = compound}

SyntheticCompoundSet == {synthetic_compounds[c] : c \in 1..Len(synthetic_compounds)}

\* C4 (as amended): for every existing_count >= 0 the generator returns the
\* same number of rows for each of its 10 compounds, at least 5 each, and
\* when 100 - existing_count is positive the total is at least
\* (100 - existing_count) - 9.
C4_EvenSplitNearTarget ==
    pc = "done" =>
        /\ \A c \in SyntheticCompoundSet :
              /\ Cardinality(RowsOf(synthetic_data.rows, c))
                   = Cardinality(RowsOf(synthetic_data.rows, "H2O"))
              /\ Cardinality(RowsOf(synthetic_data.rows, c)) >= 5
        /\ \A j \in 1..Len(synthetic_data.rows) :
              synthetic_data.rows[j].compound \in SyntheticCompoundSet
        /\ 100 - existing_count > 0 =>
              Len(synthetic_data.rows) >= (100 - existing_count) - 9

\* C4 (as stated): ... and the total is at least 95% of 100 - existing_count
\* when that is positive.
C4_Original ==
    pc = "done" =>
        /\ \A c \in SyntheticCompoundSet :
              /\ Cardinality(RowsOf(synthetic_data.rows, c))
                   = Cardinality(RowsOf(synthetic_data.rows, "H2O"))
              /\ Cardinality(RowsOf(synthetic_data.rows, c)) >= 5
        /\ 100 - existing_count > 0 =>
              100 * Len(synthetic_data.rows) >= 95 * (100 - existing_count)

C4_Witness ==
    /\ pc = "done"
    /\ existing_count = 41
    /\ Len(synthetic_data.rows) = 50

\* C5: when collect_hackathon_dataset tops up (fewer than 50 real rows), the
\* final table is the real rows, unchanged, followed by the synthetic rows,
\* and its size is at most 100 and short of 100 by fewer than 10 rows.
C5_TopUpNearTarget ==
    (pc = "summary" /\ Len(real_data.rows) < 50) =>
        /\ training_data.rows = real_data.rows \o synthetic_data.rows
        /\ real_data = process_for_training(hash_seed, raw_data)
        /\ Len(training_data.rows) <= 100
        /\ 100 - Len(training_data.rows) < 10

C5_Witness ==
    /\ pc = "summary"
    /\ Len(real_data.rows) = 3
    /\ Len(training_data.rows) = 93

\* a written table row as the claim wants it
RowInContract(row) ==
    /\ row.temperature.k = "num"
    /\ GreaterEq(row.temperature, Int2Float(200))
    /\ LessEq(row.temperature, Int2Float(2000))
    /\ row.heat_capacity.k \in {"num", "inf"}
    /\ Greater(row.heat_capacity, Int2Float(0))
    /\ row.molecular_weight.k = "num"
    /\ row.n_atoms \in Nat
    /\ row.is_polar \in {0, 1}
    /\ row.compound \notin DOMAIN properties =>
          /\ row.molecular_weight = Int2Float(50)
          /\ row.n_atoms = 5
          /\ row.is_polar = 0

\* a parsed record of a compound whose temperature is not within [200, 2000]
OutOfRange(rec) ==
    ~(GreaterEq(rec.temperature, Int2Float(200)) /\ LessEq(rec.temperature, Int2Float(2000)))

\* C6: every row of the training table, as returned, as written to the
\* intermediate file and as written to the final file, has a temperature
\* within [200, 2000], a present heat_capacity > 0 and non-null
\* molecular_weight, n_atoms and is_polar; a row of a compound that is not in
\* the molecular-properties table carries {50, 5, 0}; and no parsed record
\* with a temperature outside [200, 2000] shows up as a row of its compound.
C6_RowsInContract ==
    /\ \A j \in 1..Len(files.final.content) : RowInContract(files.final.content[j])
    /\ \A j \in 1..Len(files.training.content) : RowInContract(files.training.content[j])
    /\ \A j \in 1..Len(training_data.rows) : RowInContract(training_data.rows[j])
    /\ \A c \in DOMAIN raw_data :
          \A r \in 1..Len(raw_data[c].thermodynamic_data.rows) :
              OutOfRange(raw_data[c].thermodynamic_data.rows[r]) =>
                  \A j \in RowsOf(training_data.rows, c) :
                      training_data.rows[j].temperature
                          # raw_data[c].thermodynamic_data.rows[r].temperature

C6_Witness ==
    /\ pc = "exit"
    /\ result.status = "returned"
    /\ files.final.content = to_csv(training_data)
    /\ "ammonia" \in DOMAIN raw_data
    /\ \E r \in 1..Len(raw_data["ammonia"].thermodynamic_data.rows) :
          OutOfRange(raw_data["ammonia"].thermodynamic_data.rows[r])
    /\ \E j \in 1..Len(files.final.content) :
          /\ files.final.content[j].compound = "ammonia"
          /\ files.final.content[j].molecular_weight = Int2Float(50)
    /\ Len(files.final.content) > Len(real_data.rows)

\* C7: the raw results saved by save_data, loaded again by load_data and
\* aggregated by process_for_training in a later run of the program give the
\* same training rows, compound_id included, as the aggregation of the
\* original mapping did.
C7_ReplayReproduces ==
    pc = "replayed" => replay_data.table = real_data

\* Within one process (the same hash seed) the round trip does give the same
\* rows: what differs between runs is compound_id alone.
C7_SameProcessRoundTrip ==
    (pc = "replayed" /\ replay_data.hash_seed = hash_seed) =>
        replay_data.table = real_data

\* text is <number> PM <number>, spaces around PM allowed
IsPlainNumber(s) ==
    /\ s # <<>>
    /\ \A p \in 1..Len(s) : IsDigit(s[p]) \/ s[p] = "."
    /\ ParseFloat(s).k = "num"

\* C8: for a cell text <number> PM <number>, with or without spaces around
\* the sign, _parse_number returns the number before the sign.
C8_UncertaintyDiscarded ==
    pc = "done" =>
        \A p \in 1..Len(text) :
            (/\ text[p] = "PM"
             /\ IsPlainNumber(RStrip(SubSeq(text, 1, p - 1)))
             /\ IsPlainNumber(LStrip(SubSeq(text, p + 1, Len(text)))))
            => parsed = ParseFloat(RStrip(SubSeq(text, 1, p - 1)))

\* the value a cell parses to, None for a cell that is not there
CellNumber(cells, col) ==
    IF col + 1 <= Len(cells) THEN _parse_number(Strip(cells[col + 1])) ELSE None

\* the row qualifies as the claim has it: at least 2 cells, column 0 a
\* temperature within [50, 5000], column 1 a heat capacity > 0
RowQualifies(cells) ==
    /\ Len(cells) >= 2
    /\ CellNumber(cells, 0).k = "num"
    /\ GreaterEq(CellNumber(cells, 0), Int2Float(50))
    /\ LessEq(CellNumber(cells, 0), Int2Float(5000))
    /\ CellNumber(cells, 1).k \in {"num", "inf"}
    /\ Greater(CellNumber(cells, 1), Int2Float(0))

\* the qualifying rows of a table, in order: none without a keyword in the
\* header, never the first row
QualifyingRows(table) ==
    IF IsThermoTable(table) /\ table.tr # <<>>
    THEN SelectSeq(Tail(table.tr), RowQualifies)
    ELSE <<>>

RECURSIVE QualifyingRowsOf(_)
QualifyingRowsOf(doc) ==
    IF doc = <<>> THEN <<>>
    ELSE QualifyingRows(Head(doc)) \o QualifyingRowsOf(Tail(doc))

\* an optional column of a record against its cell: absent (None, or NaN in
\* a column that has values) when the cell is missing or unparsable
OptionalMatches(value, cells, col) ==
    IF CellNumber(cells, col) = None THEN IsNA(value)
    ELSE value = CellNumber(cells, col)

RecordMatches(rec, cells) ==
    /\ rec.temperature = CellNumber(cells, 0)
    /\ rec.heat_capacity = CellNumber(cells, 1)
    /\ OptionalMatches(rec.entropy, cells, 2)
    /\ OptionalMatches(rec.gibbs_free_energy, cells, 3)
    /\ OptionalMatches(rec.enthalpy_minus_h298, cells, 4)

\* C9: the records _parse_thermodynamic_tables returns are, in document
\* order, one for each row that is in a table with a keyword in its header,
\* after the table's first row, with at least 2 cells, a column 0 that parses
\* to a temperature within [50, 5000] and a column 1 that parses to a heat
\* capacity > 0, and no other; entropy, Gibbs and enthalpy come from columns
\* 2, 3 and 4 or are absent; the result is "no data" exactly when no row
\* qualifies.
C9_RecordIffQualifies ==
    pc = "done" =>
        /\ thermo_data.present = (QualifyingRowsOf(soup) # <<>>)
        /\ Len(thermo_data.rows) = Len(QualifyingRowsOf(soup))
        /\ \A j \in 1..Len(thermo_data.rows) :
              j <= Len(QualifyingRowsOf(soup)) =>
                  RecordMatches(thermo_data.rows[j], QualifyingRowsOf(soup)[j])

\* the rows of a document, table after table
RECURSIVE AllRows(_)
AllRows(doc) == IF doc = <<>> THEN <<>> ELSE Head(doc).tr \o AllRows(Tail(doc))

HasAny(label, words) == \E w \in words : Contains(label, w)

\* the row counts: at least 2 cells and a value that parses
RowCounts(cells) ==
    Len(cells) >= 2 /\ _parse_number(Strip(cells[2])) # None

\* the classification of a lowercased label: labels with boiling or
\* vaporization first, temperature or point before enthalpy
ClassifiedTo(label, key) ==
    LET boil  == HasAny(label, {W_boiling, W_vaporization})
        melt  == HasAny(label, {W_melting, W_fusion})
        point == HasAny(label, {W_temperature, W_point})
        heat  == Contains(label, W_enthalpy)
    IN  CASE key = "boiling_point_K"      -> boil /\ point
          [] key = "heat_of_vaporization" -> boil /\ heat /\ ~point
          [] key = "melting_point_K"      -> melt /\ ~boil /\ point
          [] key = "heat_of_fusion"       -> melt /\ ~boil /\ heat /\ ~point
          [] OTHER                        -> FALSE

\* the classification as stated: enthalpy with boiling or vaporization is
\* the heat of vaporization, enthalpy with melting or fusion the heat of fusion
StatedClassifiedTo(label, key) ==
    LET boil  == HasAny(label, {W_boiling, W_vaporization})
        melt  == HasAny(label, {W_melting, W_fusion})
        point == HasAny(label, {W_temperature, W_point})
        heat  == Contains(label, W_enthalpy)
    IN  CASE key = "boiling_point_K"      -> boil /\ point
          [] key = "heat_of_vaporization" -> boil /\ heat
          [] key = "melting_point_K"      -> melt /\ point
          [] key = "heat_of_fusion"       -> melt /\ heat
          [] OTHER                        -> FALSE

PhaseKeys ==
    {"boiling_point_K", "melting_point_K", "heat_of_vaporization", "heat_of_fusion"}

Label(cells) == Lower(Strip(cells[1]))

\* the rows of the document that count and are classified to key
RowsFor(rows, key, Classified(_, _)) ==
    {j \in 1..Len(rows) : RowCounts(rows[j]) /\ Classified(Label(rows[j]), key)}

LastOf(S) == CHOOSE j \in S : \A i \in S : i <= j

\* every key holds the value of the last row classified to it, and is absent
\* when there is none
LastWriteWins(dict, rows, Classified(_, _)) ==
    /\ DOMAIN dict \subseteq PhaseKeys
    /\ \A key \in PhaseKeys :
          IF RowsFor(rows, key, Classified) = {}
          THEN key \notin DOMAIN dict
          ELSE /\ key \in DOMAIN dict
               /\ dict[key] =
                    _parse_number(Strip(rows[LastOf(RowsFor(rows, key, Classified))][2]))

\* C10 (as amended): after the scan each of the four keys holds the value of
\* the last row, with at least 2 cells and a value that parses, whose label
\* is classified to it, where a label with boiling or vaporization and
\* enthalpy but neither temperature nor point sets heat_of_vaporization and a
\* label with melting or fusion, neither boiling nor vaporization, and
\* enthalpy but neither temperature nor point sets heat_of_fusion; a key
\* without such a row is absent.
C10_LastWriteWins ==
    pc = "done" => LastWriteWins(phase_data, AllRows(soup), ClassifiedTo)

\* C10 (as stated): ... where a label containing boiling/vaporization and
\* enthalpy sets heat_of_vaporization and a label containing melting/fusion
\* and enthalpy sets heat_of_fusion.
C10_Original ==
    pc = "done" => LastWriteWins(phase_data, AllRows(soup), StatedClassifiedTo)

C10_Witness ==
    /\ pc = "done"
    /\ Cardinality(RowsFor(AllRows(soup), "boiling_point_K", ClassifiedTo)) >= 2
    /\ \E j \in 1..Len(AllRows(soup)) :
          /\ Len(AllRows(soup)[j]) >= 2
          /\ ~RowCounts(AllRows(soup)[j])
          /\ j > LastOf(RowsFor(AllRows(soup), "boiling_point_K", ClassifiedTo))
          /\ ClassifiedTo(Label(AllRows(soup)[j]), "boiling_point_K")
    /\ phase_data["boiling_point_K"] = Num(373, 0)
    /\ "heat_of_fusion" \notin DOMAIN phase_data

\* C11: between any two consecutive requests sent to the source there is a
\* pause, whatever the earlier request brought and whether or not the two
\* belong to the same compound: the session never shows a request directly
\* after a request.
C11_PauseBetweenRequests == wire # <<"get", "get">>

\* The two data requests of scrape_compound_data are each sent after a pause.
C11_DataRequestsPaced == pc = "phase" => wire = <<"sleep", "get">>

\* the results of the first n compounds of the list
ResultsUpTo(n) ==
    [c \in DOMAIN results \cap {compound_list[j] : j \in 1..n} |-> results[c]]

\* C12: with save_progress on, once the 5th, 10th, ... compound of the list
\* has been processed, whatever its outcome, and before the next compound
\* begins, a write of the progress file has been made, and the file written
\* holds all the results accumulated up to that compound.
C12_CheckpointEveryFifth ==
    save_progress =>
        \A n \in 1..Len(compound_list) :
            (n % 5 = 0 /\ nth > n) =>
                /\ n \in DOMAIN progress_files
                /\ progress_files[n].written =>
                      progress_files[n].content = save_data(ResultsUpTo(n))

\* What holds of C12: the checkpoint is there when the 5th, 10th, ...
\* compound itself gave a result.
C12_CheckpointWhenStored ==
    save_progress =>
        \A n \in 1..Len(compound_list) :
            (n % 5 = 0 /\ nth > n /\ compound_list[n] \in DOMAIN results) =>
                /\ n \in DOMAIN progress_files
                /\ progress_files[n].written =>
                      progress_files[n].content = save_data(ResultsUpTo(n))

\* What holds of C12: a write of the progress file, failed or not, leaves
\* the results as they are and the loop goes on with the next compound.
C12_WriteFailureHarmless ==
    [][pc = "save" =>
          /\ results' = results
          /\ \/ pc' = "pause" /\ nth' = nth
             \/ nth' = nth + 1 /\ pc' \in {"search", "done"}]_vars

====
